---- MODULE Spec2Model ----
(***************************************************************************)
(* GST invoice matcher (src/gst_matcher.py, driven by src/app.py).         *)
(*                                                                         *)
(* A DataFrame is a record [dtypes, rows]: dtypes maps each column name to *)
(* its dtype, rows is the sequence of rows (functions from column names to *)
(* values) in index order.  A row's position in rows is its row identity.  *)
(* Text (invoice numbers, date strings) is a sequence of tokens.           *)
(***************************************************************************)
EXTENDS Integers, Sequences, FiniteSets, TLC

VARIABLES config, raw_company, raw_portal, buffer_size,
          pc, load_error, company_df, portal_df, results,
          loaded_company, loaded_portal

\* company_df and portal_df are the caller's two table objects; loaded_company
\* and loaded_portal record their content as load_data returned it.
vars == <<config, raw_company, raw_portal, buffer_size,
          pc, load_error, company_df, portal_df, results,
          loaded_company, loaded_portal>>

-----------------------------------------------------------------------------
(* Bounds of the model *)

MaxCompany == 2
MaxPortal == 2
MaxLoadRows == 1
MaxCalls == 2

-----------------------------------------------------------------------------
(* Generic helpers *)

SeqsUpTo(S, n) == UNION {[1..k -> S] : k \in 0..n}

Range(s) == {s[i] : i \in DOMAIN s}

Columns(df) == DOMAIN df.dtypes

NoFrame == [dtypes |-> <<>>, rows |-> <<>>]

\* df[c] = series, a series of dtype t with one value per row
SetColumn(df, c, t, series) ==
    [dtypes |-> [k \in Columns(df) \cup {c} |-> IF k = c THEN t ELSE df.dtypes[k]],
     rows   |-> [i \in DOMAIN df.rows |->
                   [k \in Columns(df) \cup {c} |->
                      IF k = c THEN series[i] ELSE df.rows[i][k]]]]

\* df[cols] : column selection
SelectColumns(df, cols) ==
    [dtypes |-> [k \in cols |-> df.dtypes[k]],
     rows   |-> [i \in DOMAIN df.rows |-> [k \in cols |-> df.rows[i][k]]]]

-----------------------------------------------------------------------------
(* Configuration *)

\* The portal tax headers are written without their currency-sign suffix.
get_default_config ==
    [columns |->
       [company |-> [gstin          |-> "GSTIN of supplier",
                     party_name     |-> "Party Name",
                     accounting_doc |-> "Accounting Document No",
                     invoice_no     |-> "Invoice No",
                     invoice_date   |-> "Invoice Date",
                     cgst           |-> "CGST Amount",
                     sgst           |-> "SGST Amount",
                     igst           |-> "IGST Amount"],
        portal  |-> [gstin          |-> "GSTIN of supplier",
                     invoice_no     |-> "Invoice number",
                     invoice_date   |-> "Invoice Date",
                     cgst           |-> "Central Tax",
                     sgst           |-> "State/UT Tax",
                     igst           |-> "Integrated Tax"]],
     date_formats |-> [company |-> <<"%d", "-", "%m", "-", "%Y">>,
                       portal  |-> <<"%d", "/", "%m", "/", "%Y">>]]

\* A config.json that names the company CGST column differently
RenamedConfig ==
    [get_default_config EXCEPT !.columns.company.cgst = "Central GST"]

\* A config.json that exchanges the headers of the company cgst and sgst fields
SwappedConfig ==
    [get_default_config EXCEPT !.columns.company.cgst = "SGST Amount",
                               !.columns.company.sgst = "CGST Amount"]

Configs == {get_default_config, RenamedConfig, SwappedConfig}

\* __init__: list(config['columns'][side].values())
company_columns(cfg) == Range(cfg.columns.company)
portal_columns(cfg) == Range(cfg.columns.portal)

-----------------------------------------------------------------------------
(* load_data *)

\* pd.to_datetime(text, format=fmt) of one value: the literal tokens of the
\* format must be met by the text; the directives take the day, month, year.
DateParses(text, fmt) ==
    /\ Len(text) = Len(fmt)
    /\ \A i \in DOMAIN fmt : fmt[i] \notin {"%d", "%m", "%Y"} => text[i] = fmt[i]

Field(text, fmt, d) == text[CHOOSE i \in DOMAIN fmt : fmt[i] = d]

to_datetime(text, fmt) ==
    [day |-> Field(text, fmt, "%d"), month |-> Field(text, fmt, "%m"),
     year |-> Field(text, fmt, "%Y")]

ColumnError(names) == [kind |-> "Column not found", names |-> names]
OtherError == [kind |-> "Error loading data", names |-> {}]
NoError == [kind |-> "none", names |-> {}]

LoadFailure(err) ==
    [status |-> "ValueError", error |-> err, company |-> NoFrame, portal |-> NoFrame]

\* df['Total'] = df[a] + df[b] + df[c]
WithTotal(df, a, b, c) ==
    SetColumn(df, "Total", "int64",
              [i \in DOMAIN df.rows |-> df.rows[i][a] + df.rows[i][b] + df.rows[i][c]])

\* df["Invoice Date"] = pd.to_datetime(df["Invoice Date"], format=fmt)
WithParsedDate(df, fmt) ==
    SetColumn(df, "Invoice Date", "datetime64",
              [i \in DOMAIN df.rows |-> to_datetime(df.rows[i]["Invoice Date"], fmt)])

AllDatesParse(df, fmt) ==
    \A i \in DOMAIN df.rows : DateParses(df.rows[i]["Invoice Date"], fmt)

CompanyTax == <<"CGST Amount", "SGST Amount", "IGST Amount">>
PortalTax == <<"Central Tax", "State/UT Tax", "Integrated Tax">>

FirstMissing(df, names) ==
    names[CHOOSE i \in DOMAIN names :
            /\ names[i] \notin Columns(df)
            /\ \A j \in 1..(i-1) : names[j] \in Columns(df)]

load_data(cfg, rawc, rawp) ==
    IF ~(company_columns(cfg) \subseteq Columns(rawc))
      THEN LoadFailure(ColumnError(company_columns(cfg) \ Columns(rawc)))
    ELSE IF ~(portal_columns(cfg) \subseteq Columns(rawp))
      THEN LoadFailure(ColumnError(portal_columns(cfg) \ Columns(rawp)))
    ELSE
      LET c0 == SelectColumns(rawc, company_columns(cfg))
          p0 == SelectColumns(rawp, portal_columns(cfg))
      IN
      IF "Invoice Date" \notin Columns(c0)
        THEN LoadFailure(ColumnError({"Invoice Date"}))
      ELSE IF ~AllDatesParse(c0, cfg.date_formats.company)
        THEN LoadFailure(OtherError)
      ELSE IF "Invoice Date" \notin Columns(p0)
        THEN LoadFailure(ColumnError({"Invoice Date"}))
      ELSE IF ~AllDatesParse(p0, cfg.date_formats.portal)
        THEN LoadFailure(OtherError)
      ELSE IF ~(Range(CompanyTax) \subseteq Columns(c0))
        THEN LoadFailure(ColumnError({FirstMissing(c0, CompanyTax)}))
      ELSE IF ~(Range(PortalTax) \subseteq Columns(p0))
        THEN LoadFailure(ColumnError({FirstMissing(p0, PortalTax)}))
      ELSE
        [status  |-> "ok",
         error   |-> NoError,
         company |-> WithTotal(WithParsedDate(c0, cfg.date_formats.company),
                               CompanyTax[1], CompanyTax[2], CompanyTax[3]),
         portal  |-> WithTotal(WithParsedDate(p0, cfg.date_formats.portal),
                               PortalTax[1], PortalTax[2], PortalTax[3])]

-----------------------------------------------------------------------------
(* match_invoices *)

Digits == {"0", "1", "2", "3", "4", "5", "6", "7", "8", "9"}
Upper == {"A", "B", "C", "D", "E", "F", "G", "H", "I", "J", "K", "L", "M",
          "N", "O", "P", "Q", "R", "S", "T", "U", "V", "W", "X", "Y", "Z"}
Lower == {"a", "b", "c", "d", "e", "f", "g", "h", "i", "j", "k", "l", "m",
          "n", "o", "p", "q", "r", "s", "t", "u", "v", "w", "x", "y", "z"}

Alnum == Digits \cup Upper \cup Lower

\* the complement of the character class [^0-9a-zA-Z]
NotInClass(ch) == ch \in Alnum

\* the text after the longest prefix matched by [^0-9a-zA-Z]+
RECURSIVE SkipRun(_)
SkipRun(s) ==
    IF s = <<>> \/ NotInClass(Head(s)) THEN s ELSE SkipRun(Tail(s))

\* Mutant of clean_invoice: the character class also spares the dash,
\* '[^0-9a-zA-Z-]+'
RECURSIVE clean_invoice_keep_dash(_)
clean_invoice_keep_dash(invoice) ==
    IF invoice = <<>> THEN <<>>
    ELSE IF NotInClass(Head(invoice)) \/ Head(invoice) = "-"
      THEN <<Head(invoice)>> \o clean_invoice_keep_dash(Tail(invoice))
      ELSE clean_invoice_keep_dash(Tail(invoice))

\* re.sub('[^0-9a-zA-Z]+', '', str(invoice)): scan left to right, copy the
\* characters outside a match, drop every maximal match.  Invoice numbers are
\* text cells, on which str() changes nothing.
RECURSIVE clean_invoice(_)
clean_invoice(invoice) ==
    IF invoice = <<>> THEN <<>>
    ELSE IF NotInClass(Head(invoice))
      THEN <<Head(invoice)>> \o clean_invoice(Tail(invoice))
      ELSE clean_invoice(SkipRun(invoice))

\* Timestamp.strftime('%d-%m-%Y')
strftime(date) == <<date.day, "-", date.month, "-", date.year>>

MergeOn == {"GSTIN of supplier", "Clean_Invoice"}

\* column name + suffix, for the columns the two tables can share
Suffixed(c, side) ==
    CASE c = "Invoice Date" /\ side = "company" -> "Invoice Date_company"
      [] c = "Invoice Date" /\ side = "portal"  -> "Invoice Date_portal"
      [] c = "Total" /\ side = "company"        -> "Total_company"
      [] c = "Total" /\ side = "portal"         -> "Total_portal"

\* the (left index, right index) pairs of an inner merge, left order first and
\* right order within one left row
RECURSIVE JoinRight(_, _, _, _)
JoinRight(l, right, i, j) ==
    IF j > Len(right.rows) THEN <<>>
    ELSE (IF \A k \in MergeOn : l[k] = right.rows[j][k] THEN <<(<<i, j>>)>> ELSE <<>>)
         \o JoinRight(l, right, i, j + 1)

RECURSIVE JoinPairs(_, _, _)
JoinPairs(left, right, i) ==
    IF i > Len(left.rows) THEN <<>>
    ELSE JoinRight(left.rows[i], right, i, 1) \o JoinPairs(left, right, i + 1)

\* one row of left.merge(right, on=MergeOn, how='inner',
\*                       suffixes=('_company', '_portal'))
MergeRow(left, right, l, r) ==
    LET lc == Columns(left)
        rc == Columns(right)
        overlap == (lc \cap rc) \ MergeOn
        kept_left == lc \ overlap
        kept_right == rc \ overlap
        from_left == {Suffixed(c, "company") : c \in overlap}
        from_right == {Suffixed(c, "portal") : c \in overlap}
    IN [k \in kept_left \cup kept_right \cup from_left \cup from_right |->
          IF k \in kept_left THEN l[k]
          ELSE IF k \in kept_right THEN r[k]
          ELSE IF k \in from_left
            THEN l[CHOOSE c \in overlap : k = Suffixed(c, "company")]
            ELSE r[CHOOSE c \in overlap : k = Suffixed(c, "portal")]]

\* Mutant of ExactRecord: the difference taken the other way round
ExactRecordNegated(row) ==
    [GSTIN |-> row["GSTIN of supplier"],
     PartyName |-> row["Party Name"],
     AccountingDocumentNo |-> row["Accounting Document No"],
     InvoiceNo |-> row["Invoice No"],
     InvoiceDate |-> row["Date_Str"],
     FirmTotal |-> row["Total_company"],
     PortalTotal |-> row["Total_portal"],
     Difference |-> row["Total_company"] - row["Total_portal"],
     MatchStatus |-> "Exact",
     PortalMatch |-> row["Invoice number"]]

\* lines 87-98
ExactRecord(row) ==
    [GSTIN |-> row["GSTIN of supplier"],
     PartyName |-> row["Party Name"],
     AccountingDocumentNo |-> row["Accounting Document No"],
     InvoiceNo |-> row["Invoice No"],
     InvoiceDate |-> row["Date_Str"],
     FirmTotal |-> row["Total_company"],
     PortalTotal |-> row["Total_portal"],
     Difference |-> row["Total_portal"] - row["Total_company"],
     MatchStatus |-> "Exact",
     PortalMatch |-> row["Invoice number"]]

\* lines 118-129
CloseRecord(gstin, company_row, portal_row) ==
    [GSTIN |-> gstin,
     PartyName |-> company_row["Party Name"],
     AccountingDocumentNo |-> company_row["Accounting Document No"],
     InvoiceNo |-> company_row["Invoice No"],
     InvoiceDate |-> company_row["Date_Str"],
     FirmTotal |-> company_row["Total"],
     PortalTotal |-> portal_row["Total"],
     Difference |-> portal_row["Total"] - company_row["Total"],
     MatchStatus |-> "Close",
     PortalMatch |-> portal_row["Invoice number"]]

\* lines 135-141
UnmatchedRecord(row) ==
    [GSTIN |-> row["GSTIN of supplier"],
     PartyName |-> row["Party Name"],
     InvoiceNo |-> row["Invoice No"],
     InvoiceDate |-> row["Date_Str"],
     FirmTotal |-> row["Total"]]

abs(x) == IF x < 0 THEN -x ELSE x

\* df[~df['Invoice No'].isin(invoices)]: the index labels kept, in order
NotIsin(df, invoices) ==
    SelectSeq([i \in DOMAIN df.rows |-> i],
              LAMBDA i : df.rows[i]["Invoice No"] \notin invoices)

\* Series.unique(): the values in order of first appearance
RECURSIVE unique(_)
unique(s) ==
    IF s = <<>> THEN <<>>
    ELSE LET u == unique(SubSeq(s, 1, Len(s) - 1))
         IN IF s[Len(s)] \in Range(u) THEN u ELSE Append(u, s[Len(s)])

\* df[df['GSTIN of supplier'] == gstin] of the whole table: index labels
Subset(df, gstin) ==
    SelectSeq([i \in DOMAIN df.rows |-> i],
              LAMBDA i : df.rows[i]["GSTIN of supplier"] = gstin)

\* lines 105-130 when pdf has the column the loop reads: the close
\* records of one gstin group, company rows in index order, each paired with
\* the first portal row of the group with the same date and a total within
\* buffer_size (close_matches.iloc[0])
CloseOf(company, portal, buf, i, gstin) ==
    LET company_row == company.rows[i]
        close_matches ==
            SelectSeq(Subset(portal, gstin),
                      LAMBDA j :
                        /\ portal.rows[j]["Invoice Date_x"] = company_row["Invoice Date"]
                        /\ abs(portal.rows[j]["Total"] - company_row["Total"])
                             <= buf)
    IN IF close_matches = <<>> THEN <<>> ELSE <<(<<i, close_matches[1]>>)>>

RECURSIVE ClosePairs(_, _, _, _, _)
ClosePairs(company, portal, buf, unmatched_company, gstins) ==
    IF gstins = <<>> THEN <<>>
    ELSE LET gstin == Head(gstins)
             company_subset ==
                 SelectSeq(unmatched_company,
                           LAMBDA i : company.rows[i]["GSTIN of supplier"] = gstin)
             Group[n \in 0..Len(company_subset)] ==
                 IF n = 0 THEN <<>>
                 ELSE Group[n - 1]
                      \o CloseOf(company, portal, buf, company_subset[n], gstin)
         IN Group[Len(company_subset)]
            \o ClosePairs(company, portal, buf, unmatched_company, Tail(gstins))

\* line 112 is evaluated for the first unmatched company row whose gstin has
\* a non-empty portal_subset
ReachesLine112(company, portal, unmatched_company) ==
    \E n \in DOMAIN unmatched_company :
        Subset(portal, company.rows[unmatched_company[n]]["GSTIN of supplier"]) # <<>>

Raised(kind, company, portal) ==
    [status |-> kind, matched |-> <<>>, unmatched |-> <<>>,
     matched_src |-> <<>>, unmatched_src |-> <<>>,
     company |-> company, portal |-> portal]

\* df[c].apply(self.clean_invoice)
CleanSeries(df, c) == [i \in DOMAIN df.rows |-> clean_invoice(df.rows[i][c])]

\* Mutant of MutatedCompany: the formatted date is also written back into
\* 'Invoice Date', which then holds text
MutatedCompanyDateInPlace(cdf) ==
    LET Clean == CleanSeries(cdf, "Invoice No")
        DateStr == [i \in DOMAIN cdf.rows |-> strftime(cdf.rows[i]["Invoice Date"])]
    IN SetColumn(SetColumn(SetColumn(cdf, "Clean_Invoice", "object", Clean),
                           "Date_Str", "object", DateStr),
                 "Invoice Date", "object", DateStr)

\* lines 72-75: the columns the call writes into the caller's company table
MutatedCompany(cdf) ==
    LET Clean == CleanSeries(cdf, "Invoice No")
        DateStr == [i \in DOMAIN cdf.rows |-> strftime(cdf.rows[i]["Invoice Date"])]
    IN SetColumn(SetColumn(cdf, "Clean_Invoice", "object", Clean),
                 "Date_Str", "object", DateStr)

\* line 73
MutatedPortal(pdf) ==
    SetColumn(pdf, "Clean_Invoice", "object", CleanSeries(pdf, "Invoice number"))

\* line 104
Pass2Enabled(buf) == buf > 0

\* lines 77-83: the join pairs of the exact pass
ExactPairs(company, portal) == JoinPairs(company, portal, 1)

\* line 100
MatchedInvoices(company, pairs) ==
    {company.rows[pairs[n][1]]["Invoice No"] : n \in DOMAIN pairs}

\* The whole call on (company_df, portal_df, buffer_size) = (cdf, pdf, buf).  matched_src and unmatched_src are the row identities
\* (index labels of the company and portal rows) behind each output record.
match_invoices(cdf, pdf, buf) ==
    LET portal == MutatedPortal(pdf)
    IN
    IF cdf.dtypes["Invoice Date"] # "datetime64"
      THEN \* line 75: .dt of a column that holds no datetimes
           Raised("AttributeError",
                  SetColumn(cdf, "Clean_Invoice", "object",
                            CleanSeries(cdf, "Invoice No")),
                  portal)
    ELSE
      LET company == MutatedCompany(cdf)
          pairs == ExactPairs(company, portal)
          matched_records ==
              [n \in DOMAIN pairs |->
                 ExactRecord(MergeRow(company, portal, company.rows[pairs[n][1]],
                                      portal.rows[pairs[n][2]]))]
          matched_invoices == MatchedInvoices(company, pairs)
          unmatched_company == NotIsin(company, matched_invoices)
          pass2 == Pass2Enabled(buf)
      IN
      IF pass2 /\ ReachesLine112(company, portal, unmatched_company)
               /\ "Invoice Date_x" \notin Columns(portal)
        THEN Raised("KeyError", company, portal)
      ELSE
        LET gstins == unique([n \in DOMAIN unmatched_company |->
                        company.rows[unmatched_company[n]]["GSTIN of supplier"]])
            close == IF pass2
                       THEN ClosePairs(company, portal, buf,
                                       unmatched_company, gstins)
                       ELSE <<>>
            close_matched_records ==
                [n \in DOMAIN close |->
                   CloseRecord(company.rows[close[n][1]]["GSTIN of supplier"],
                               company.rows[close[n][1]], portal.rows[close[n][2]])]
            final_invoices ==
                matched_invoices
                \cup {company.rows[close[n][1]]["Invoice No"] : n \in DOMAIN close}
            final_unmatched == NotIsin(company, final_invoices)
        IN [status |-> "ok",
            matched |-> matched_records \o close_matched_records,
            unmatched |-> [n \in DOMAIN final_unmatched |->
                             UnmatchedRecord(company.rows[final_unmatched[n]])],
            matched_src |-> pairs \o close,
            unmatched_src |-> final_unmatched,
            company |-> company,
            portal |-> portal]

-----------------------------------------------------------------------------
(* Inputs *)

GSTINs == {"27ABCDE1234F1Z5", "29PQRSX5678K1Z2"}
Tolerances == {-1, 0, 5}

Date15dash == <<"15", "-", "01", "-", "2024">>
Date15slash == <<"15", "/", "01", "/", "2024">>
Date16slash == <<"16", "/", "01", "/", "2024">>

InvSlash == <<"I", "N", "V", "/", "0", "0", "1">>
InvDash == <<"I", "N", "V", "-", "0", "0", "1">>
InvOther == <<"X", "_", "-", "9">>

\* the logical content of a company row and of a portal row
CompanyLogical(gstins, invoices, dates, cgsts, igsts) ==
    [gstin : gstins, party_name : {"Acme"}, accounting_doc : {"D1"},
     invoice_no : invoices, invoice_date : dates,
     cgst : cgsts, sgst : {50}, igst : igsts]

PortalLogical(gstins, invoices, dates, cgsts, igsts) ==
    [gstin : gstins, invoice_no : invoices, invoice_date : dates,
     cgst : cgsts, sgst : {50}, igst : igsts]

TaxFields == {"cgst", "sgst", "igst"}

\* pd.read_excel: a sheet whose header row is the configured headers `present`
\* and whose rows hold the logical contents under those headers
read_excel(columns, present, logical_rows) ==
    LET field(h) == CHOOSE l \in DOMAIN columns : columns[l] = h
    IN [dtypes |-> [h \in present |->
                      IF field(h) \in TaxFields THEN "int64" ELSE "object"],
        rows |-> [i \in DOMAIN logical_rows |->
                    [h \in present |-> logical_rows[i][field(h)]]]]

-----------------------------------------------------------------------------
(* The program: GSTMatcher(), load_data, then match_invoices, which a caller
   may invoke again on the same two tables *)

InitWith(cfgs, company_tables, portal_tables, company_drop, portal_drop) ==
    /\ config \in cfgs
    /\ \E rows \in company_tables, drop \in company_drop :
         raw_company = read_excel(config.columns.company,
                                  {config.columns.company[l] :
                                     l \in DOMAIN config.columns.company \ drop},
                                  rows)
    /\ \E rows \in portal_tables, drop \in portal_drop :
         raw_portal = read_excel(config.columns.portal,
                                 {config.columns.portal[l] :
                                    l \in DOMAIN config.columns.portal \ drop},
                                 rows)
    /\ buffer_size \in Tolerances
    /\ pc = "init"
    /\ load_error = NoError
    /\ company_df = NoFrame
    /\ portal_df = NoFrame
    /\ loaded_company = NoFrame
    /\ loaded_portal = NoFrame
    /\ results = <<>>

\* Sheets in the default layout, as the application documents them.  The
\* first supplier issues two invoices whose numbers differ after cleaning, and
\* files on the portal, which writes the first number with another separator;
\* the second supplier reuses the second invoice number and files nothing.
CompanySheetRows ==
    CompanyLogical({"27ABCDE1234F1Z5"}, {InvSlash, InvOther}, {Date15dash}, {50}, {0})
    \cup CompanyLogical({"29PQRSX5678K1Z2"}, {InvOther}, {Date15dash}, {50}, {0})

PortalSheetRows ==
    PortalLogical({"27ABCDE1234F1Z5"}, {InvDash, InvOther},
                  {Date15slash, Date16slash}, {50, 55}, {0})

Init ==
    InitWith({get_default_config},
             SeqsUpTo(CompanySheetRows, MaxCompany),
             SeqsUpTo(PortalSheetRows, MaxPortal),
             {{}}, {{}})

\* Any configuration, sheets that may lack a configured header or hold a date
\* in the other source's format
InitLoad ==
    InitWith(Configs,
             SeqsUpTo(CompanyLogical({"27ABCDE1234F1Z5"}, {InvSlash},
                                     {Date15dash, Date15slash}, {50, 55}, {0, 5}),
                      MaxLoadRows),
             SeqsUpTo(PortalLogical({"27ABCDE1234F1Z5"}, {InvDash},
                                    {Date15slash, Date15dash}, {50, 55}, {0}),
                      MaxLoadRows),
             {{}, {"cgst"}, {"invoice_no"}}, {{}, {"igst"}, {"invoice_date"}})

LoadData ==
    /\ pc = "init"
    /\ \E r \in {load_data(config, raw_company, raw_portal)} :
          /\ pc' = IF r.status = "ok" THEN "loaded" ELSE "load_failed"
          /\ load_error' = r.error
          /\ company_df' = r.company
          /\ portal_df' = r.portal
          /\ loaded_company' = r.company
          /\ loaded_portal' = r.portal
    /\ UNCHANGED <<config, raw_company, raw_portal, buffer_size, results>>

MatchInvoices ==
    /\ pc = "loaded"
    /\ Len(results) < MaxCalls
    /\ \E r \in {match_invoices(company_df, portal_df, buffer_size)} :
          /\ results' = Append(results,
                               [status |-> r.status,
                                matched |-> r.matched,
                                unmatched |-> r.unmatched,
                                matched_src |-> r.matched_src,
                                unmatched_src |-> r.unmatched_src])
          /\ company_df' = r.company
          /\ portal_df' = r.portal
    /\ UNCHANGED <<config, raw_company, raw_portal, buffer_size, pc, load_error,
                   loaded_company, loaded_portal>>

Next == LoadData \/ MatchInvoices

Spec == Init /\ [][Next]_vars

SpecLoad == InitLoad /\ [][Next]_vars

-----------------------------------------------------------------------------
(* Vocabulary of the properties *)

\* the rows of the two tables as load_data handed them to the caller, before
\* any call
Company0 == loaded_company.rows
Portal0 == loaded_portal.rows

\* cleanInvoiceNo: the invoice number without its non-alphanumeric characters
AlnumOnly(s) == SelectSeq(s, LAMBDA ch : ch \in Alnum)

\* company row i and portal row j share (gstin, cleanInvoiceNo)
SameKey(i, j) ==
    /\ Company0[i]["GSTIN of supplier"] = Portal0[j]["GSTIN of supplier"]
    /\ AlnumOnly(Company0[i]["Invoice No"]) = AlnumOnly(Portal0[j]["Invoice number"])

HasExact(i) == \E j \in DOMAIN Portal0 : SameKey(i, j)

\* the portal rows that qualify as a close match of company row i
Candidates(i, tolerance) ==
    {j \in DOMAIN Portal0 :
       /\ Portal0[j]["GSTIN of supplier"] = Company0[i]["GSTIN of supplier"]
       /\ Portal0[j]["Invoice Date"] = Company0[i]["Invoice Date"]
       /\ Portal0[j]["Total"] - Company0[i]["Total"] <= tolerance
       /\ Company0[i]["Total"] - Portal0[j]["Total"] <= tolerance}

Entries(r, i, status) ==
    {k \in DOMAIN r.matched :
       r.matched_src[k][1] = i /\ r.matched[k].MatchStatus = status}

InExact(r, i) == Entries(r, i, "Exact") # {}
InClose(r, i) == Entries(r, i, "Close") # {}
InUnmatched(r, i) == \E k \in DOMAIN r.unmatched_src : r.unmatched_src[k] = i

Returned(n) == n \in DOMAIN results /\ results[n].status = "ok"

\* the Exact entries of r are one entry per key-sharing (company, portal)
\* pair, in company-then-portal order, each carrying its two rows
ExactIsInnerJoin(r) ==
    LET exact == {k \in DOMAIN r.matched : r.matched[k].MatchStatus = "Exact"}
    IN /\ \A k \in exact :
            /\ r.matched_src[k][1] \in DOMAIN Company0
            /\ r.matched_src[k][2] \in DOMAIN Portal0
            /\ SameKey(r.matched_src[k][1], r.matched_src[k][2])
            /\ r.matched[k].InvoiceNo = Company0[r.matched_src[k][1]]["Invoice No"]
            /\ r.matched[k].PortalMatch = Portal0[r.matched_src[k][2]]["Invoice number"]
       /\ \A i \in DOMAIN Company0, j \in DOMAIN Portal0 :
            SameKey(i, j) =>
              Cardinality({k \in exact : r.matched_src[k] = <<i, j>>}) = 1
       /\ \A k1, k2 \in exact :
            k1 < k2 =>
              \/ r.matched_src[k1][1] < r.matched_src[k2][1]
              \/ /\ r.matched_src[k1][1] = r.matched_src[k2][1]
                 /\ r.matched_src[k1][2] < r.matched_src[k2][2]

-----------------------------------------------------------------------------
(* Properties *)

\* C1 (as claimed): after a call with tolerance >= 0 returns, every company
\* row, by row identity, is in exactly one of the buckets Exact, Close,
\* unmatched.
C1_Partition ==
    \A n \in DOMAIN results :
      (Returned(n) /\ buffer_size >= 0) =>
        \A i \in DOMAIN Company0 :
          LET r == results[n]
          IN /\ InExact(r, i) \/ InClose(r, i) \/ InUnmatched(r, i)
             /\ ~(InExact(r, i) /\ InClose(r, i))
             /\ ~(InExact(r, i) /\ InUnmatched(r, i))
             /\ ~(InClose(r, i) /\ InUnmatched(r, i))

\* C2 (as claimed): with tolerance > 0, a company row without exact
\* counterpart that has a qualifying portal row (same gstin, same date, totals
\* within tolerance) makes the call complete with exactly one result for that
\* row, a Close one paired with the first qualifying portal row; without a
\* qualifying portal row the company row is returned as unmatched.
C2_CloseMatch ==
    (Len(results) >= 1 /\ buffer_size > 0) =>
      \A i \in DOMAIN Company0 :
        ~HasExact(i) =>
          LET r == results[1]
              cand == Candidates(i, buffer_size)
          IN IF cand # {}
               THEN /\ r.status = "ok"
                    /\ Cardinality({k \in DOMAIN r.matched : r.matched_src[k][1] = i}) = 1
                    /\ \A k \in DOMAIN r.matched :
                         r.matched_src[k][1] = i =>
                           /\ r.matched[k].MatchStatus = "Close"
                           /\ \A j \in cand : r.matched_src[k][2] <= j
                           /\ r.matched_src[k][2] \in cand
               ELSE /\ r.status = "ok"
                    /\ InUnmatched(r, i)
                    /\ ~InExact(r, i) /\ ~InClose(r, i)

\* C3: the Exact entries of a returned matched output are the inner join on
\* (gstin, cleanInvoiceNo): one entry per key-sharing (company row, portal
\* row) pair, in company-then-portal source order, whatever the dates and
\* totals of the two rows; a company row without such a portal row has none.
C3_ExactInnerJoin ==
    \A n \in DOMAIN results : Returned(n) => ExactIsInnerJoin(results[n])

\* C3 witness: a returned Exact entry pairs 'INV/001' with 'INV-001' although
\* the two rows differ in date and in total
C3_Witness ==
    \E n \in DOMAIN results :
      /\ Returned(n)
      /\ \E k \in DOMAIN results[n].matched :
           LET m == results[n].matched[k]
               c == Company0[results[n].matched_src[k][1]]
               p == Portal0[results[n].matched_src[k][2]]
           IN /\ m.MatchStatus = "Exact"
              /\ m.InvoiceNo = InvSlash /\ m.PortalMatch = InvDash
              /\ c["Invoice Date"] # p["Invoice Date"]
              /\ c["Total"] # p["Total"]

\* C4 (as claimed): a call with buffer_size < 0 ends in an InvalidArgument
\* error and returns no matched or unmatched output.
C4_NegativeRejected ==
    \A n \in DOMAIN results :
      buffer_size < 0 =>
        /\ results[n].status = "InvalidArgument"
        /\ results[n].matched = <<>>
        /\ results[n].unmatched = <<>>

\* C5 (as claimed): for tolerances 0 <= t1 <= t2 the call with t2 completes
\* whenever the call with t1 does, and returns at least as many matched
\* records.  Here t2 is the tolerance of the run and t1 ranges over the others.
C5_Monotone ==
    (Len(results) >= 1 /\ buffer_size >= 0) =>
      \A t1 \in Tolerances :
        (0 <= t1 /\ t1 <= buffer_size) =>
          LET r1 == match_invoices(loaded_company, loaded_portal, t1)
          IN r1.status = "ok" =>
               /\ results[1].status = "ok"
               /\ Len(results[1].matched) >= Len(r1.matched)

\* C6: every record of a returned matched output has Firm Total = the total of
\* its company row, Portal Total = the total of the portal row it is paired
\* with, and Difference = Portal Total - Firm Total.
C6_DifferenceSign ==
    \A n \in DOMAIN results :
      Returned(n) =>
        \A k \in DOMAIN results[n].matched :
          LET m == results[n].matched[k]
          IN /\ m.FirmTotal = Company0[results[n].matched_src[k][1]]["Total"]
             /\ m.PortalTotal = Portal0[results[n].matched_src[k][2]]["Total"]
             /\ m.Difference = m.PortalTotal - m.FirmTotal

\* C6 witness: a returned matched record whose two totals differ
C6_Witness ==
    \E n \in DOMAIN results :
      /\ Returned(n)
      /\ \E k \in DOMAIN results[n].matched :
           results[n].matched[k].PortalTotal # results[n].matched[k].FirmTotal

\* C7 (as claimed): with tolerance 0 the call returns what the algorithm
\* without Pass 2 returns: only Exact results in matched (the inner join), and
\* every company row without an exact counterpart in unmatched, in source
\* order.
C7_ZeroTolerance ==
    (Len(results) >= 1 /\ buffer_size = 0) =>
      LET r == results[1]
      IN /\ r.status = "ok"
         /\ \A k \in DOMAIN r.matched : r.matched[k].MatchStatus = "Exact"
         /\ ExactIsInnerJoin(r)
         /\ \A i \in DOMAIN Company0 : ~HasExact(i) <=> InUnmatched(r, i)
         /\ \A k1, k2 \in DOMAIN r.unmatched_src :
              k1 < k2 => r.unmatched_src[k1] < r.unmatched_src[k2]

\* C8: a second call on the very tables the first call was given, with the
\* same tolerance, yields the same outcome: same matched and unmatched
\* sequences, same records in the same order.
C8_Determinism ==
    \A n \in DOMAIN results :
      n > 1 =>
        /\ results[n].status = results[1].status
        /\ results[n].matched = results[1].matched
        /\ results[n].unmatched = results[1].unmatched

\* C8 witness: two calls were made, both returning matched and unmatched
\* records
C8_Witness ==
    /\ Len(results) >= 2
    /\ Returned(2)
    /\ results[2].matched # <<>>
    /\ results[2].unmatched # <<>>

\* C9 (as claimed): after a call the company table and the portal table have
\* the columns and row values they had before it.
C9_Purity ==
    Len(results) >= 1 =>
      /\ company_df = loaded_company
      /\ portal_df = loaded_portal

\* C10 (as claimed): when both sheets hold every configured header, with
\* dates in the configured formats, load_data succeeds and every record's
\* total is the sum of the columns configured as cgst, sgst and igst; when a
\* configured header is absent, load_data fails naming it and returns no table.
C10_LoaderHonoursConfig ==
    pc # "init" =>
      LET cc == config.columns.company
          pp == config.columns.portal
          complete == /\ Range(cc) \subseteq Columns(raw_company)
                      /\ Range(pp) \subseteq Columns(raw_portal)
          dated == /\ AllDatesParse(raw_company, config.date_formats.company)
                   /\ AllDatesParse(raw_portal, config.date_formats.portal)
      IN /\ (complete /\ dated) =>
              /\ pc = "loaded"
              /\ Len(company_df.rows) = Len(raw_company.rows)
              /\ Len(portal_df.rows) = Len(raw_portal.rows)
              /\ \A i \in DOMAIN raw_company.rows :
                   company_df.rows[i]["Total"] =
                     raw_company.rows[i][cc.cgst] + raw_company.rows[i][cc.sgst]
                       + raw_company.rows[i][cc.igst]
              /\ \A i \in DOMAIN raw_portal.rows :
                   portal_df.rows[i]["Total"] =
                     raw_portal.rows[i][pp.cgst] + raw_portal.rows[i][pp.sgst]
                       + raw_portal.rows[i][pp.igst]
         /\ ~complete =>
              /\ pc = "load_failed"
              /\ load_error.kind = "Column not found"
              /\ load_error.names # {}
              /\ load_error.names \subseteq
                   (Range(cc) \ Columns(raw_company)) \cup (Range(pp) \ Columns(raw_portal))
              /\ company_df = NoFrame /\ portal_df = NoFrame

====
